---------------------------- MODULE Spec2Model ----------------------------
(***************************************************************************)
(* A model of the inventory exercise: the path reconstruction loop and the *)
(* field lookup of extract_inventory_object_details, process_line, and the *)
(* S3Helper operations _clean_s3_path, list_keys, rename_prefix and        *)
(* get_all_s3_objects.                                                     *)
(*                                                                         *)
(* A Python str is modelled as a sequence of one-character strings, so     *)
(* that strip, replace, split and join are computed character by           *)
(* character.  Python indexes from 0; the cursor i, the recorded read      *)
(* indexes and the field numbers below are 0-based as in the source, and   *)
(* Get(j) / line[j + 1] translate to the 1-based sequences of TLA+.        *)
(***************************************************************************)
EXTENDS Integers, Sequences, FiniteSets, TLC

(***************************************************************************)
(* Bounds of the model.                                                    *)
(***************************************************************************)
MaxLen == 4
MaxDocLen == 2
MaxPathLen == 6
MaxFields == 12
MaxPages == 3
MaxPerPage == 2

(***************************************************************************)
(* Strings.                                                                *)
(***************************************************************************)
Whitespace == {" ", "\n"}

RECURSIVE LStripSet(_, _)
LStripSet(s, chars) ==
    IF s # <<>> /\ Head(s) \in chars THEN LStripSet(Tail(s), chars) ELSE s

RECURSIVE RStripSet(_, _)
RStripSet(s, chars) ==
    IF s # <<>> /\ s[Len(s)] \in chars
    THEN RStripSet(SubSeq(s, 1, Len(s) - 1), chars)
    ELSE s

\* str.strip(): leading and trailing whitespace removed.
Strip(s) == RStripSet(LStripSet(s, Whitespace), Whitespace)

\* '/'.join(parts)
RECURSIVE Join_WithSlash(_)
Join_WithSlash(parts) ==
    IF parts = <<>> THEN <<>>
    ELSE IF Len(parts) = 1 THEN Head(parts)
    ELSE Head(parts) \o <<"/">> \o Join_WithSlash(Tail(parts))

\* ''.join(parts)
RECURSIVE Join(_)
Join(parts) == IF parts = <<>> THEN <<>> ELSE Head(parts) \o Join(Tail(parts))

\* A set of sequences of length 0..n over S.
SeqsUpTo(S, n) == UNION {[1..k -> S] : k \in 0..n}

(***************************************************************************)
(* Markup nodes: the spans found under the object-value element.  A span   *)
(* carries its class list (the empty set when it has no class attribute,   *)
(* as elements[i].get('class', []) reads it) and its text.                 *)
(***************************************************************************)
SegTexts == { <<"a">>, <<"b">>, <<" ", "c", " ">> }
SepTexts == { <<"/">>, <<>>, <<" ">>, <<" ", "-", " ">> }

Nodes ==
    [class : {{"path"}}, text : SegTexts]
      \cup [class : {{"path-sep"}}, text : SepTexts]
      \cup [class : {{}}, text : {<<"x">>}]
      \cup [class : {{"path", "path-sep"}}, text : {<<"/">>}]

VARIABLES
    \* extract_inventory_object_details
    response,     \* what requests.get returned: status and parsed document
    bucket,       \* bucket_div.text.strip()
    region_code,  \* region_div.get('data-region', '')
    elements,     \* the spans of object_div, in document order
    i,            \* the cursor of the loop
    path_parts,   \* the fragments collected so far
    object_path,  \* the joined path
    result,       \* the returned dict, NoResult until the function returns
    error,        \* the exception raised, "none" until one is
    pc,           \* position in extract_inventory_object_details
    origin,       \* history: origin[k] is the index of the node that gave path_parts[k]
    reads,        \* history: the indexes at which elements was read
    steps,        \* history: the cursor advances made, in order
    \* S3Helper._clean_s3_path
    path,         \* the argument, then the local being cleaned
    path_arg,     \* history: the argument as passed
    warned,       \* logger.warning was called
    cpc,
    \* process_line, both copies
    line,         \* the row
    returned,     \* what inventory_utils.process_line returned
    returned_script, \* what integration-exercise.process_line returned
    line_reads,   \* history: the field indexes read by either copy
    lpc,
    \* S3Helper.rename_prefix
    objects,      \* the bucket: key -> content
    prefix,
    new_prefix,
    listing,      \* the keys list_keys has still to yield
    key,          \* the key of the current iteration
    objects0,     \* history: the bucket when rename_prefix was called
    listed0,      \* history: the keys list_keys(prefix) listed
    rpc,
    \* S3Helper.get_all_s3_objects
    pages,        \* the listing as the service pages it
    continuation_token,
    last_response,
    yielded,      \* what the generator has yielded so far
    requests_log, \* history: the token of each list_objects_v2 call, NoToken for none
    gpc

extractVars ==
    <<response, bucket, region_code, elements, i, path_parts, object_path,
      result, error, pc, origin, reads, steps>>
cleanVars == <<path, path_arg, warned, cpc>>
lineVars == <<line, returned, returned_script, line_reads, lpc>>
renameVars ==
    <<objects, prefix, new_prefix, listing, key, objects0, listed0, rpc>>
pageVars ==
    <<pages, continuation_token, last_response, yielded, requests_log, gpc>>

vars == <<extractVars, cleanVars, lineVars, renameVars, pageVars>>

\* None, and the values a variable holds while its operation is not running.
None == [none |-> TRUE]

ExtractIdle ==
    /\ response = None /\ bucket = <<>> /\ region_code = <<>>
    /\ elements = <<>> /\ i = 0 /\ path_parts = <<>> /\ object_path = <<>>
    /\ result = None /\ error = "none" /\ pc = "idle"
    /\ origin = <<>> /\ reads = {} /\ steps = <<>>
CleanIdle == path = <<>> /\ path_arg = <<>> /\ warned = FALSE /\ cpc = "idle"
LineIdle ==
    /\ line = <<>> /\ returned = None /\ returned_script = None
    /\ line_reads = {} /\ lpc = "idle"
RenameIdle ==
    /\ objects = <<>> /\ prefix = <<>> /\ new_prefix = <<>> /\ listing = <<>>
    /\ key = <<>> /\ objects0 = <<>> /\ listed0 = <<>> /\ rpc = "idle"
PageIdle ==
    /\ pages = <<>> /\ continuation_token = None /\ last_response = None
    /\ yielded = <<>> /\ requests_log = <<>> /\ gpc = "idle"

(***************************************************************************)
(* extract_inventory_object_details: the lookup of the three elements and  *)
(* the path reconstruction loop.                                           *)
(***************************************************************************)
\* The document as soup.find sees it: each of the three elements is found
\* (a Tag) or not (None).  A Tag is truthy whatever it holds.
Div(text) == [text |-> text]
RegionDiv(attrs) == [attrs |-> attrs]
ObjectDiv(spans) == [spans |-> spans]
Document(ok, b, r, o) ==
    [ok |-> ok, bucket_div |-> b, region_div |-> r, object_div |-> o]

Truthy(tag) == tag # None
AllFound_Any(doc) ==
    Truthy(doc.bucket_div) \/ Truthy(doc.region_div) \/ Truthy(doc.object_div)

AllFound(doc) ==
    Truthy(doc.bucket_div) /\ Truthy(doc.region_div) /\ Truthy(doc.object_div)

\* Tag.get(name, default)
AttrGet(attrs, name, default) ==
    IF name \in DOMAIN attrs THEN attrs[name] ELSE default

SampleBucket == <<" ", "b", "k", "t", " ">>
SampleAttrs == [a \in {"data-region"} |-> <<"u", "s">>]
NoAttrs == [a \in {} |-> <<>>]

\* elements[j] of Python for j >= 0: the node, or IndexError past the end.
IndexError == [class |-> {"IndexError"}, text |-> <<>>]
Get(j) == IF j < Len(elements) THEN elements[j + 1] ELSE IndexError

IsSep(node) == "path-sep" \in node.class
IsPath(node) == "path" \in node.class

\* separator if separator else '/'
SepFragment_NoDefault(node) == Strip(node.text)
SepFragment(node) == IF Strip(node.text) # <<>> THEN Strip(node.text) ELSE <<"/">>
PathFragment_Raw(node) == node.text
PathFragment(node) == Strip(node.text)

LoopCond == i < Len(elements)
NextInRange_OffByOne(j) == j < Len(elements)
NextInRange(j) == j + 1 < Len(elements)
IsLast_Always(j) == TRUE
IsLast(j) == j = Len(elements) - 1

\* The indexes the lookahead condition of line 50 reads (and short-circuits).
LookaheadReads(j) == IF NextInRange(j) THEN {j + 1} ELSE {}
HasSepAfter(j) == NextInRange(j) /\ IsSep(Get(j + 1))

Raised(rd) == \E j \in rd : Get(j) = IndexError

\* The state at line 40, for any list of spans.
InitLoop ==
    /\ elements \in SeqsUpTo(Nodes, MaxLen)
    /\ response = Document(TRUE, Div(SampleBucket), RegionDiv(SampleAttrs),
                           ObjectDiv(elements))
    /\ bucket = Strip(response.bucket_div.text)
    /\ region_code = AttrGet(response.region_div.attrs, "data-region", <<>>)
    /\ i = 0
    /\ path_parts = <<>>
    /\ object_path = <<>>
    /\ result = None
    /\ error = "none"
    /\ pc = "loop"
    /\ origin = <<>>
    /\ reads = {}
    /\ steps = <<>>
    /\ CleanIdle /\ LineIdle /\ RenameIdle /\ PageIdle

Advance(rd, n, parts, from) ==
    /\ reads' = reads \cup rd
    /\ IF Raised(rd)
       THEN /\ pc' = "raised"
            /\ error' = "IndexError"
            /\ UNCHANGED <<i, path_parts, origin, steps>>
       ELSE /\ pc' = pc
            /\ i' = i + n
            /\ steps' = Append(steps, n)
            /\ path_parts' = path_parts \o parts
            /\ origin' = origin \o from
            /\ UNCHANGED error
    /\ UNCHANGED <<response, bucket, region_code, elements, object_path, result>>
    /\ UNCHANGED <<cleanVars, lineVars, renameVars, pageVars>>

SepBranch ==
    /\ pc = "loop" /\ LoopCond
    /\ IsSep(Get(i))
    /\ Advance({i}, 1, <<SepFragment(Get(i))>>, <<i>>)

PathWithSep ==
    /\ pc = "loop" /\ LoopCond
    /\ ~IsSep(Get(i)) /\ IsPath(Get(i))
    /\ HasSepAfter(i)
    /\ Advance({i} \cup LookaheadReads(i), 2,
               <<PathFragment(Get(i)), SepFragment(Get(i + 1))>>, <<i, i + 1>>)

PathLast ==
    /\ pc = "loop" /\ LoopCond
    /\ ~IsSep(Get(i)) /\ IsPath(Get(i))
    /\ ~HasSepAfter(i) /\ IsLast(i)
    /\ Advance({i} \cup LookaheadReads(i), 1, <<PathFragment(Get(i))>>, <<i>>)

PathDiscard ==
    /\ pc = "loop" /\ LoopCond
    /\ ~IsSep(Get(i)) /\ IsPath(Get(i))
    /\ ~HasSepAfter(i) /\ ~IsLast(i)
    /\ Advance({i} \cup LookaheadReads(i), 1, <<>>, <<>>)

OtherBranch ==
    /\ pc = "loop" /\ LoopCond
    /\ ~IsSep(Get(i)) /\ ~IsPath(Get(i))
    /\ Advance({i}, 1, <<>>, <<>>)

JoinParts ==
    /\ pc = "loop" /\ ~LoopCond
    /\ object_path' = Join(path_parts)
    /\ result' = [bucket |-> bucket, region_code |-> region_code,
                  object_path |-> object_path']
    /\ pc' = "done"
    /\ UNCHANGED <<response, bucket, region_code, elements, i, path_parts,
                   error, origin, reads, steps>>
    /\ UNCHANGED <<cleanVars, lineVars, renameVars, pageVars>>

NextLoop ==
    \/ SepBranch
    \/ PathWithSep
    \/ PathLast
    \/ PathDiscard
    \/ OtherBranch
    \/ JoinParts

SpecLoop == InitLoop /\ [][NextLoop]_vars


(***************************************************************************)
(* Vocabulary of the claims about the loop, stated on the input alone.     *)
(***************************************************************************)
NodeAt(k) == elements[k + 1]
SeparatorAt(k) == k < Len(elements) /\ "path-sep" \in NodeAt(k).class
SegmentAt(k) ==
    k < Len(elements) /\ "path" \in NodeAt(k).class /\ ~SeparatorAt(k)
Visited == {k \in 0..(Len(elements) - 1) : k < i}

\* The positions of path_parts that node k produced.
Emitted(k) == {m \in 1..Len(origin) : origin[m] = k}
TrimmedText(k) == Strip(NodeAt(k).text)
SeparatorText(k) == IF TrimmedText(k) = <<>> THEN <<"/">> ELSE TrimmedText(k)

InOriginalOrder ==
    /\ Len(origin) = Len(path_parts)
    /\ \A m, n \in 1..Len(origin) : m < n => origin[m] < origin[n]

\* C1: every segment the cursor has passed was appended exactly once, as
\* its trimmed text, when it is the last node or the node after it is a
\* separator, and was not appended at all otherwise; the cursor passes no
\* segment without this rule, and at the end every segment has been passed.
C1_SegmentRule ==
    /\ pc = "done" => Visited = 0..(Len(elements) - 1)
    /\ \A k \in Visited :
          SegmentAt(k) =>
             IF k = Len(elements) - 1 \/ SeparatorAt(k + 1)
             THEN /\ Cardinality(Emitted(k)) = 1
                  /\ \A m \in Emitted(k) : path_parts[m] = TrimmedText(k)
             ELSE Emitted(k) = {}

C1_Witness ==
    /\ pc = "done"
    /\ \E k \in Visited : SegmentAt(k) /\ SegmentAt(k + 1) /\ Emitted(k) = {}
    /\ \E k \in Visited : SegmentAt(k) /\ SeparatorAt(k + 1) /\ Emitted(k) # {}
    /\ \E k \in Visited :
          SegmentAt(k) /\ k = Len(elements) - 1 /\ Emitted(k) # {}

\* C2: every separator the cursor has passed gave exactly one fragment, its
\* trimmed text or "/" when that is empty, whether met alone or consumed with
\* the segment before it, and the fragments keep the order of their nodes.
C2_SeparatorOnce ==
    /\ InOriginalOrder
    /\ \A k \in Visited :
          SeparatorAt(k) =>
             /\ Cardinality(Emitted(k)) = 1
             /\ \A m \in Emitted(k) : path_parts[m] = SeparatorText(k)

C2_Witness ==
    /\ pc = "done"
    /\ \E k \in Visited :
          SegmentAt(k) /\ SeparatorAt(k + 1) /\ TrimmedText(k + 1) = <<>>
             /\ Cardinality(Emitted(k + 1)) = 1
    /\ \E k \in Visited :
          SeparatorAt(k) /\ SeparatorAt(k + 1) /\ TrimmedText(k + 1) # <<>>
             /\ Cardinality(Emitted(k + 1)) = 1

\* A well-formed input: segment, separator, segment, ..., segment.
WellFormed ==
    /\ Len(elements) % 2 = 1
    /\ \A k \in 0..(Len(elements) - 1) :
          IF k % 2 = 0 THEN SegmentAt(k) ELSE NodeAt(k).class = {"path-sep"}

ExpectedPath ==
    Join([m \in 1..Len(elements) |->
            IF m % 2 = 1 THEN TrimmedText(m - 1) ELSE SeparatorText(m - 1)])

\* C3: on a well-formed input the result is the concatenation, in order, of
\* every segment's (trimmed) text and every separator's (trimmed) text, an
\* empty separator text replaced by "/".
C3_WellFormedPath == (pc = "done" /\ WellFormed) => object_path = ExpectedPath

C3_Witness ==
    /\ pc = "done" /\ WellFormed
    /\ Len(elements) = 3
    /\ NodeAt(1).text = <<>>
    /\ object_path = <<"a", "/", "b">>

S4 == << [class |-> {"path"}, text |-> <<"a">>],
         [class |-> {}, text |-> <<"x">>],
         [class |-> {"path-sep"}, text |-> <<"/">>],
         [class |-> {"path"}, text |-> <<"b">>] >>

\* C4 as stated: [segment a, other x, separator /, segment b] gives "b".
C4_Original == (pc = "done" /\ elements = S4) => object_path = <<"b">>

\* C4 (amended): [segment a, other x, separator /, segment b] gives "/b":
\* segment a is discarded, the separator met alone gives "/", and the last
\* segment gives "b".
C4_DiscardThenSeparator ==
    (pc = "done" /\ elements = S4) =>
        /\ object_path = <<"/", "b">>
        /\ Emitted(0) = {}

C4_Witness == pc = "done" /\ elements = S4 /\ Len(path_parts) = 2

RECURSIVE Sum(_)
Sum(s) == IF s = <<>> THEN 0 ELSE Head(s) + Sum(Tail(s))

\* C5: the loop never raises, advances the cursor by 1 or 2 at every
\* iteration, reads no index at or past the end of the list, can always take
\* a step until it is done, leaves the cursor equal to the length of the
\* list, and gives the empty string for the empty list.
C5_Total ==
    /\ pc \in {"loop", "done"}
    /\ reads \subseteq 0..(Len(elements) - 1)
    /\ \A m \in 1..Len(steps) : steps[m] \in {1, 2}
    /\ i = Sum(steps)
    /\ i <= Len(elements)
    /\ pc = "loop" => ENABLED NextLoop
    /\ pc = "done" => i = Len(elements)
    /\ (pc = "done" /\ elements = <<>>) => object_path = <<>>

C5_Witness ==
    /\ pc = "done"
    /\ Len(elements) = MaxLen
    /\ \E m, n \in 1..Len(steps) : steps[m] = 1 /\ steps[n] = 2
    /\ SegmentAt(Len(elements) - 1)
    /\ reads = 0..(Len(elements) - 1)

(***************************************************************************)
(* The whole of extract_inventory_object_details, from the request on.     *)
(***************************************************************************)
BucketTexts == { SampleBucket, <<>> }

Documents ==
    { Document(ok, b, r, o) :
        ok \in BOOLEAN,
        b \in {None} \cup {Div(t) : t \in BucketTexts},
        r \in {None, RegionDiv(SampleAttrs), RegionDiv(NoAttrs)},
        o \in {None} \cup {ObjectDiv(sp) : sp \in SeqsUpTo(Nodes, MaxDocLen)} }

InitExtract ==
    /\ response \in Documents
    /\ bucket = <<>> /\ region_code = <<>>
    /\ elements = <<>> /\ i = 0 /\ path_parts = <<>> /\ object_path = <<>>
    /\ result = None /\ error = "none" /\ pc = "start"
    /\ origin = <<>> /\ reads = {} /\ steps = <<>>
    /\ CleanIdle /\ LineIdle /\ RenameIdle /\ PageIdle

\* Lines 17-40: the request, the three lookups, the check, and the locals
\* the loop starts from.
LocateDivs ==
    /\ pc = "start"
    /\ IF ~response.ok
       THEN /\ pc' = "raised" /\ error' = "HTTPError"
            /\ UNCHANGED <<bucket, region_code, elements>>
       ELSE IF ~AllFound(response)
       THEN /\ pc' = "raised" /\ error' = "ValueError"
            /\ UNCHANGED <<bucket, region_code, elements>>
       ELSE IF None \in {response.bucket_div, response.region_div,
                         response.object_div}
       THEN \* .text, .get or .find_all on None
            /\ pc' = "raised" /\ error' = "AttributeError"
            /\ UNCHANGED <<bucket, region_code, elements>>
       ELSE /\ bucket' = Strip(response.bucket_div.text)
            /\ region_code' = AttrGet(response.region_div.attrs, "data-region", <<>>)
            /\ elements' = response.object_div.spans
            /\ pc' = "loop"
            /\ UNCHANGED error
    /\ UNCHANGED <<response, i, path_parts, object_path, result, origin, reads, steps>>
    /\ UNCHANGED <<cleanVars, lineVars, renameVars, pageVars>>

NextExtract == LocateDivs \/ NextLoop

SpecExtract == InitExtract /\ [][NextExtract]_vars

\* What the claim calls located: the element holding the piece is in the
\* document, and for the region code, which is read from the data-region
\* attribute, that attribute is on the element.
BucketNameLocated == response.bucket_div # None
RegionCodeLocated ==
    response.region_div # None /\ "data-region" \in DOMAIN response.region_div.attrs
PathNodesLocated == response.object_div # None

AllElementsFound ==
    /\ response.bucket_div # None
    /\ response.region_div # None
    /\ response.object_div # None

Returned == pc = "done" /\ result # None
Signalled == pc = "raised" /\ error # "none" /\ result = None

\* C7 as stated: a result is returned only when the bucket name, the region
\* code and the node sequence were all located, and an error is signalled
\* whenever one of them was not.
C7_Original ==
    /\ Returned => BucketNameLocated /\ RegionCodeLocated /\ PathNodesLocated
    /\ (pc \in {"done", "raised"}
          /\ ~(BucketNameLocated /\ RegionCodeLocated /\ PathNodesLocated))
       => Signalled

\* C7 (amended): an error is signalled, and no result returned, whenever one
\* of the three elements bucket-value, region-value, object-value is not in
\* the document, and a returned result means all three elements were found;
\* a region-value element without a data-region attribute is no error: the
\* result then carries the empty region code.
C7_ElementsRequired ==
    /\ (pc # "start" /\ ~AllElementsFound) => Signalled
    /\ (pc # "start" /\ response.ok /\ ~AllElementsFound) => error = "ValueError"
    /\ Returned => AllElementsFound
    /\ (Returned /\ ~RegionCodeLocated) => result.region_code = <<>>

C7_Witness ==
    /\ Signalled /\ error = "ValueError"
    /\ response.region_div = None
    /\ response.bucket_div # None /\ response.object_div # None

(***************************************************************************)
(* S3Helper._clean_s3_path                                                 *)
(***************************************************************************)
\* path.strip('/')
StripSlashes(s) == RStripSet(LStripSet(s, {"/"}), {"/"})

\* '//' in path
RECURSIVE HasDoubleSlash(_)
HasDoubleSlash(s) ==
    /\ Len(s) >= 2
    /\ \/ (s[1] = "/" /\ s[2] = "/")
       \/ HasDoubleSlash(Tail(s))

\* path.replace('//', '/'): one pass from the left over the occurrences
\* that do not overlap.
RECURSIVE ReplaceDoubleSlash(_)
ReplaceDoubleSlash(s) ==
    IF Len(s) < 2 THEN s
    ELSE IF s[1] = "/" /\ s[2] = "/"
         THEN <<"/">> \o ReplaceDoubleSlash(SubSeq(s, 3, Len(s)))
         ELSE <<s[1]>> \o ReplaceDoubleSlash(Tail(s))

_clean_s3_path(s) ==
    IF HasDoubleSlash(StripSlashes(s))
    THEN ReplaceDoubleSlash(StripSlashes(s))
    ELSE StripSlashes(s)

PathChars == {"/", "a"}

InitClean ==
    /\ path \in SeqsUpTo(PathChars, MaxPathLen)
    /\ path_arg = path
    /\ warned = FALSE
    /\ cpc = "call"
    /\ ExtractIdle /\ LineIdle /\ RenameIdle /\ PageIdle

CleanS3Path ==
    /\ cpc = "call"
    /\ path' = _clean_s3_path(path)
    /\ warned' = HasDoubleSlash(StripSlashes(path))
    /\ cpc' = "done"
    /\ UNCHANGED path_arg
    /\ UNCHANGED <<extractVars, lineVars, renameVars, pageVars>>

NextClean == CleanS3Path

SpecClean == InitClean /\ [][NextClean]_vars

\* C6: the cleaned path does not start with "/", does not end with "/",
\* and holds no "//".
C6_Normalized ==
    cpc = "done" =>
        /\ path = <<>> \/ (path[1] # "/" /\ path[Len(path)] # "/")
        /\ \A m \in 1..(Len(path) - 1) : ~(path[m] = "/" /\ path[m + 1] = "/")

(***************************************************************************)
(* process_line, in inventory_utils.py and in integration-exercise.py.     *)
(***************************************************************************)
\* line[j] of Python for j >= 0.
FieldError == [IndexError |-> TRUE]
Field(row, j) == IF j < Len(row) THEN row[j + 1] ELSE FieldError

process_line_AtLeast(row) ==
    IF Len(row) >= 10
    THEN [upc |-> Field(row, 0), price |-> Field(row, 4), quantity |-> Field(row, 5)]
    ELSE None

process_line(row) ==
    IF Len(row) > 10
    THEN [upc |-> Field(row, 0), price |-> Field(row, 4), quantity |-> Field(row, 5)]
    ELSE None

process_line_reads(row) == IF Len(row) > 10 THEN {0, 4, 5} ELSE {}

script_process_line(row) ==
    IF Len(row) > 10
    THEN [upc |-> Field(row, 0), price |-> Field(row, 4), quantity |-> Field(row, 5)]
    ELSE None

script_process_line_reads(row) == IF Len(row) > 10 THEN {0, 4, 5} ELSE {}

\* Rows of the pipe-delimited file: field j holds <<j, v>>, v one of two
\* values in the fields the record is built from.
FieldValues(j) == IF j \in {0, 4, 5} THEN {[col |-> j, val |-> "v"], [col |-> j, val |-> "w"]}
                  ELSE {[col |-> j, val |-> "v"]}
RECURSIVE RowsOfLen(_)
RowsOfLen(n) ==
    IF n = 0 THEN {<<>>}
    ELSE {Append(row, f) : row \in RowsOfLen(n - 1), f \in FieldValues(n - 1)}
Rows == UNION {RowsOfLen(n) : n \in 0..MaxFields}

InitLine ==
    /\ line \in Rows
    /\ returned = None /\ returned_script = None
    /\ line_reads = {}
    /\ lpc = "call"
    /\ ExtractIdle /\ CleanIdle /\ RenameIdle /\ PageIdle

ProcessLine ==
    /\ lpc = "call"
    /\ returned' = process_line(line)
    /\ returned_script' = script_process_line(line)
    /\ line_reads' = process_line_reads(line) \cup script_process_line_reads(line)
    /\ lpc' = "done"
    /\ UNCHANGED line
    /\ UNCHANGED <<extractVars, cleanVars, renameVars, pageVars>>

NextLine == ProcessLine

SpecLine == InitLine /\ [][NextLine]_vars

\* C8: process_line returns {upc: field 0, price: field 4, quantity: field 5}
\* exactly when the row has more than 10 fields and nothing otherwise, reads
\* no field the row does not have, and its two copies return the same.
C8_RecordIffMoreThanTen ==
    lpc = "done" =>
        /\ Len(line) > 10 =>
              returned = [upc |-> line[1], price |-> line[5], quantity |-> line[6]]
        /\ Len(line) <= 10 => returned = None
        /\ line_reads \subseteq 0..(Len(line) - 1)
        /\ returned_script = returned

C8_Witness ==
    /\ lpc = "done"
    /\ Len(line) = 11
    /\ returned # None
    /\ returned.price.col = 4
    /\ line_reads = {0, 4, 5}

(***************************************************************************)
(* S3Helper.rename_prefix over S3Helper.list_keys.  The bucket maps each   *)
(* key to its content; the content of an object is named after the key it  *)
(* was stored under when rename_prefix was called.                         *)
(***************************************************************************)
CharOrder == <<"/", "f", "g", "p", "q", "x", "y">>
Rank(c) == CHOOSE n \in 1..Len(CharOrder) : CharOrder[n] = c

\* Keys are listed in the order of their bytes.
RECURSIVE LexLess(_, _)
LexLess(a, b) ==
    IF a = <<>> THEN b # <<>>
    ELSE IF b = <<>> THEN FALSE
    ELSE IF Head(a) = Head(b) THEN LexLess(Tail(a), Tail(b))
    ELSE Rank(Head(a)) < Rank(Head(b))

RECURSIVE SortKeys(_)
SortKeys(S) ==
    IF S = {} THEN <<>>
    ELSE LET first == CHOOSE x \in S : \A y \in S \ {x} : LexLess(x, y)
         IN  <<first>> \o SortKeys(S \ {first})

StartsWith(s, p) == Len(p) <= Len(s) /\ SubSeq(s, 1, Len(p)) = p

\* bucket.objects.filter(Prefix=prefix) or bucket.objects.all(), as keys
list_keys(bkt, pfx) ==
    IF pfx # <<>>
    THEN SortKeys({k \in DOMAIN bkt : StartsWith(k, _clean_s3_path(pfx))})
    ELSE SortKeys(DOMAIN bkt)

\* prefix[:-1] if prefix.endswith('/') else prefix
DropTrailingSlash(s) ==
    IF s # <<>> /\ s[Len(s)] = "/" THEN SubSeq(s, 1, Len(s) - 1) ELSE s

\* key.split('/')[-1]
LastComponent(k) ==
    LET slashes == {m \in 1..Len(k) : k[m] = "/"}
    IN  IF slashes = {} THEN k
        ELSE LET last == CHOOSE m \in slashes : \A n \in slashes : n <= m
             IN  SubSeq(k, last + 1, Len(k))

\* '{new_prefix}/{filename}'
NewKey(np, k) == np \o <<"/">> \o LastComponent(k)

KeyUniverse ==
    { <<"p", "/", "f">>, <<"p", "/", "g">>, <<"p", "/", "x", "/", "f">>,
      <<"p", "/", "y", "/", "f">>, <<"q", "/", "f">> }
PrefixArgs == { <<"p">>, <<"p", "/">>, <<"p", "/", "x">> }
NewPrefixArgs == { <<"q">>, <<"q", "/">>, <<"p">> }

InitRename ==
    /\ objects \in {[k \in S |-> k] : S \in SUBSET KeyUniverse}
    /\ prefix \in PrefixArgs
    /\ new_prefix \in NewPrefixArgs
    /\ listing = <<>>
    /\ key = <<>>
    /\ objects0 = objects
    /\ listed0 = <<>>
    /\ rpc = "call"
    /\ ExtractIdle /\ CleanIdle /\ LineIdle /\ PageIdle

\* Lines 198-201.  A bucket of fewer than a page of keys is listed in one
\* request, made when the loop asks for the first key.
RenameBegin ==
    /\ rpc = "call"
    /\ prefix' = DropTrailingSlash(prefix)
    /\ new_prefix' = DropTrailingSlash(new_prefix)
    /\ listing' = list_keys(objects, prefix')
    /\ listed0' = listing'
    /\ rpc' = "iter"
    /\ UNCHANGED <<objects, key, objects0>>
    /\ UNCHANGED <<extractVars, cleanVars, lineVars, pageVars>>

\* Lines 201-207: the next key, and copy_from to the new key.
RenameCopy ==
    /\ rpc = "iter" /\ listing # <<>>
    /\ NewKey(new_prefix, Head(listing)) # Head(listing)
    /\ key' = Head(listing)
    /\ listing' = Tail(listing)
    /\ IF key' \in DOMAIN objects
       THEN /\ objects' = [k \in DOMAIN objects \cup {NewKey(new_prefix, key')} |->
                              IF k = NewKey(new_prefix, key') THEN objects[key']
                              ELSE objects[k]]
            /\ rpc' = "delete"
       ELSE /\ rpc' = "raised"
            /\ UNCHANGED objects
    /\ UNCHANGED <<prefix, new_prefix, objects0, listed0>>
    /\ UNCHANGED <<extractVars, cleanVars, lineVars, pageVars>>

\* The service refuses a copy of an object onto itself that changes nothing
\* of it (InvalidRequest); copy_from then raises and rename_prefix ends there,
\* before the delete.
RenameCopyRefused ==
    /\ rpc = "iter" /\ listing # <<>>
    /\ NewKey(new_prefix, Head(listing)) = Head(listing)
    /\ key' = Head(listing)
    /\ listing' = Tail(listing)
    /\ rpc' = "raised"
    /\ UNCHANGED <<objects, prefix, new_prefix, objects0, listed0>>
    /\ UNCHANGED <<extractVars, cleanVars, lineVars, pageVars>>

\* Line 208.
RenameDelete ==
    /\ rpc = "delete"
    /\ objects' = [k \in DOMAIN objects \ {key} |-> objects[k]]
    /\ rpc' = "iter"
    /\ UNCHANGED <<prefix, new_prefix, listing, key, objects0, listed0>>
    /\ UNCHANGED <<extractVars, cleanVars, lineVars, pageVars>>

RenameEnd ==
    /\ rpc = "iter" /\ listing = <<>>
    /\ rpc' = "done"
    /\ UNCHANGED <<objects, prefix, new_prefix, listing, key, objects0, listed0>>
    /\ UNCHANGED <<extractVars, cleanVars, lineVars, pageVars>>

NextRename ==
    \/ RenameBegin
    \/ RenameCopy
    \/ RenameCopyRefused
    \/ RenameDelete
    \/ RenameEnd

SpecRename == InitRename /\ [][NextRename]_vars

\* C9: when rename_prefix has completed, every object list_keys(prefix)
\* listed is under new_prefix with its original content, and the bucket
\* holds as many objects as before.
C9_NoObjectLost ==
    rpc = "done" =>
        /\ \A m \in 1..Len(listed0) :
              \E k \in DOMAIN objects :
                 /\ StartsWith(k, new_prefix \o <<"/">>)
                 /\ objects[k] = objects0[listed0[m]]
        /\ Cardinality(DOMAIN objects) = Cardinality(DOMAIN objects0)

(***************************************************************************)
(* S3Helper.get_all_s3_objects against a service that pages the listing.   *)
(* The token of page n is [token |-> n]; a call without token gives page 1.*)
(***************************************************************************)
ObjectEntries == {[Key |-> "k1"], [Key |-> "k2"]}

Token(n) == [token |-> n]

\* client.list_objects_v2: Contents is absent from an empty page, and
\* NextContinuationToken from the last one.
ListObjectsV2(tok) ==
    LET n == IF tok = None THEN 1 ELSE tok.token
        truncated == n < Len(pages)
    IN  IF pages[n] # <<>> /\ truncated
        THEN [Contents |-> pages[n], IsTruncated |-> TRUE,
              NextContinuationToken |-> Token(n + 1)]
        ELSE IF truncated
        THEN [IsTruncated |-> TRUE, NextContinuationToken |-> Token(n + 1)]
        ELSE IF pages[n] # <<>>
        THEN [Contents |-> pages[n], IsTruncated |-> FALSE]
        ELSE [IsTruncated |-> FALSE]

\* dict.get(name, default)
DictGet(d, name, default) == IF name \in DOMAIN d THEN d[name] ELSE default

\* "if continuation_token"
TokenTruthy(tok) == tok # None

\* The token the next call is made with, line 255.
NextToken_Stale(resp) == continuation_token
NextToken(resp) == DictGet(resp, "NextContinuationToken", None)

InitPages ==
    /\ pages \in SeqsUpTo(SeqsUpTo(ObjectEntries, MaxPerPage), MaxPages) \ {<<>>}
    /\ continuation_token = None
    /\ last_response = None
    /\ yielded = <<>>
    /\ requests_log = <<>>
    /\ gpc = "request"
    /\ ExtractIdle /\ CleanIdle /\ LineIdle /\ RenameIdle

\* Lines 249-252: one call and the yield of its Contents.
ListPage ==
    /\ gpc = "request"
    /\ LET tok == IF TokenTruthy(continuation_token) THEN continuation_token ELSE None
           resp == ListObjectsV2(tok)
       IN  /\ requests_log' = Append(requests_log, tok)
           /\ last_response' = resp
           /\ yielded' = yielded \o DictGet(resp, "Contents", <<>>)
    /\ gpc' = "check"
    /\ UNCHANGED <<pages, continuation_token>>
    /\ UNCHANGED <<extractVars, cleanVars, lineVars, renameVars>>

\* Lines 253-254.
StopListing ==
    /\ gpc = "check"
    /\ ~DictGet(last_response, "IsTruncated", FALSE)
    /\ gpc' = "done"
    /\ UNCHANGED <<pages, continuation_token, last_response, yielded, requests_log>>
    /\ UNCHANGED <<extractVars, cleanVars, lineVars, renameVars>>

\* Line 255.
ContinueListing ==
    /\ gpc = "check"
    /\ DictGet(last_response, "IsTruncated", FALSE)
    /\ continuation_token' = NextToken(last_response)
    /\ gpc' = "request"
    /\ UNCHANGED <<pages, last_response, yielded, requests_log>>
    /\ UNCHANGED <<extractVars, cleanVars, lineVars, renameVars>>

NextPages == ListPage \/ StopListing \/ ContinueListing

SpecPages == InitPages /\ [][NextPages]_vars

IsPrefix(s, t) == Len(s) <= Len(t) /\ SubSeq(t, 1, Len(s)) = s

AllObjects == Join(pages)
ExpectedRequests == [n \in 1..Len(pages) |-> IF n = 1 THEN None ELSE Token(n)]

\* C10: against a listing of finitely many pages whose truncated responses
\* carry the token of the next page, the generator asks for each page once
\* and in order, the first without token and each later one with the token
\* the page before returned; yields the objects of every page once, in page
\* order; can always go on until it is done; and is done right after the
\* first response that is not truncated.
C10_EveryPageOnce ==
    /\ IsPrefix(requests_log, ExpectedRequests)
    /\ IsPrefix(yielded, AllObjects)
    /\ yielded = Join(SubSeq(pages, 1, Len(requests_log)))
    /\ gpc # "done" => ENABLED NextPages
    /\ (gpc = "request" /\ requests_log # <<>>) => last_response.IsTruncated
    /\ gpc = "done" =>
          /\ ~last_response.IsTruncated
          /\ requests_log = ExpectedRequests
          /\ yielded = AllObjects

C10_Witness ==
    /\ gpc = "done"
    /\ Len(pages) = MaxPages
    /\ pages[2] = <<>>
    /\ Len(yielded) > MaxPerPage
    /\ requests_log[Len(requests_log)] = Token(MaxPages)

=============================================================================
